---- MODULE Spec2Model ----
(***************************************************************************)
(* arviz/plots/densityplot.py: densityplot (the figure orchestrator) and   *)
(* _d_helper (the per-variable renderer).                                  *)
(*                                                                         *)
(* Spec       one call of densityplot, stepped through its statements.     *)
(* SpecHelper one call of _d_helper on a blank panel, over both value      *)
(*            kinds and a grid of collaborator results.                    *)
(*                                                                         *)
(* Numbers that are floats in the program are kept exact: a coordinate is  *)
(* a rational [num, den] with den > 0.                                     *)
(***************************************************************************)
EXTENDS Integers, Sequences, FiniteSets, TLC

VARIABLES
    pc,           \* position in the running call
    err,          \* the exception that ended the call, "" if none
    args,         \* the caller's arguments to densityplot (never assigned)
    datasets,     \* densityplot: datasets (line 63-67)
    data_labels,  \* densityplot: data_labels after lines 74-81
    colors,       \* densityplot: colors after lines 83-86
    to_plot,      \* densityplot: to_plot (line 88)
    all_labels,   \* densityplot: all_labels (lines 89-92)
    fig,          \* the figure of line 99: [allocated, figsize, tight]
    axes,         \* axes.flatten(): the panels, in grid order
    axis_map,     \* densityplot: axis_map (line 100), label -> index in axes
    m_idx,        \* loop index of line 102 (1-based here)
    v_idx,        \* position in plotters, loop of line 103 (1-based)
    calls,        \* the invocations of _d_helper so far, in order
    d_args,       \* SpecHelper: the arguments of the _d_helper call
    d_ret         \* SpecHelper: what the _d_helper call left behind

vars == <<pc, err, args, datasets, data_labels, colors, to_plot, all_labels,
          fig, axes, axis_map, m_idx, v_idx, calls, d_args, d_ret>>

-----------------------------------------------------------------------------
(* Bounds of the model *)

MaxData == 2     \* at most this many datasets in one call
MaxDraw == 2     \* draws per dataset; draw coordinates are 0 .. MaxDraw-1
MaxGrid == 3     \* SpecHelper: the density grid has 2 .. MaxGrid points
MaxVal  == 7     \* SpecHelper: sample values and interval bounds are 0 .. MaxVal

(* Program constants *)

PaletteSize == 10    \* line 84: f'C{idx % 10}'
FigWidth    == 6     \* line 95: figsize = (6, ...)
RowHeight   == 2     \* line 95: len(all_labels) * 2

\* Python's None, where the other values of the argument are strings.
None == "<None>"

-----------------------------------------------------------------------------
(* Small helpers *)

Range(a, b) == [i \in 1..(IF b > a THEN b - a ELSE 0) |-> a + i - 1]   \* range(a, b)

Rat(n) == [num |-> n, den |-> 1]
RatEq(a, b) == a.num * b.den = b.num * a.den
RatLe(a, b) == a.num * b.den <= b.num * a.den

Digits == <<"0", "1", "2", "3", "4", "5", "6", "7", "8", "9">>

RECURSIVE Str(_)
\* f'{idx}' for idx >= 0
Str(n) == IF n < 10 THEN Digits[n + 1] ELSE Str(n \div 10) \o Digits[(n % 10) + 1]

RECURSIVE Concat(_)
\* The concatenation of a sequence of sequences
Concat(ss) == IF ss = <<>> THEN <<>> ELSE Head(ss) \o Concat(Tail(ss))

SeqToSet(s) == {s[i] : i \in DOMAIN s}

-----------------------------------------------------------------------------
(* Panels and what is drawn on them *)

BlankPanel ==
    [title |-> "", artists |-> <<>>, legend |-> <<>>,
     yticks |-> "auto", hidden_spines |-> {}]

\* One drawing call on a panel: ax.plot, ax.fill_between or ax.hist.  xs, ys are
\* the data, mask the where= of fill_between, bins the bins= of hist, fmt the
\* marker, line style or histtype, alpha the blending in percent (100 when the
\* call passes none), label the label= ("" when the call passes none).
Artist(op, color, xs, ys, mask, bins, fmt, alpha, label) ==
    [op |-> op, color |-> color, xs |-> xs, ys |-> ys, mask |-> mask, bins |-> bins,
     fmt |-> fmt, alpha |-> alpha, label |-> label]

-----------------------------------------------------------------------------
(* _d_helper, lines 119-189.  vec is the flattened vector as the renderer  *)
(* observes it: its dtype kind, and what fast_kde, hpd, np.mean and        *)
(* np.median return on it.                                                 *)

\* np.linspace(lower, upper, n)
Linspace(lower, upper, n) ==
    [i \in 1..n |->
        IF n = 1 THEN Rat(lower)
        ELSE [num |-> lower * (n - 1) + (i - 1) * (upper - lower), den |-> n - 1]]

\* line 151: cut = (x >= hpd_[0]) & (x <= hpd_[1])
CutMask(x, hpd_) ==
    [i \in DOMAIN x |-> RatLe(Rat(hpd_[1]), x[i]) /\ RatLe(x[i], Rat(hpd_[2]))]

RECURSIVE MaskedFrom(_, _, _)
MaskedFrom(arr, cut, i) ==
    IF i > Len(arr) THEN <<>>
    ELSE (IF cut[i] THEN <<arr[i]>> ELSE <<>>) \o MaskedFrom(arr, cut, i + 1)

\* arr[cut]: boolean-mask indexing
Masked(arr, cut) == MaskedFrom(arr, cut, 1)

\* variant: range(xmin, xmax + 1), the bins ending at the upper bound
HistBinsShort(xmin, xmax) == Range(xmin, xmax + 1)

\* line 168: bins = range(xmin, xmax + 2)
HistBins(xmin, xmax) == Range(xmin, xmax + 2)

\* lines 148-164: the artists of the continuous branch
FloatArtists(vec, color, outline, shade) ==
    LET density == vec.density
        x    == Linspace(vec.lower, vec.upper, Len(density))
        cut  == CutMask(x, vec.hpd)
        xc   == Masked(x, cut)
        dc   == Masked(density, cut)
        xmin == xc[1]
        xmax == xc[Len(xc)]
        ymin == dc[1]
        ymax == dc[Len(dc)]
        curve == Artist("plot", color, xc, [i \in DOMAIN dc |-> Rat(dc[i])],
                        <<>>, <<>>, "-", 100, "")
        tick(xv, yv) == Artist("plot", color, <<xv, xv>>,
                               <<[num |-> -yv, den |-> 100], Rat(yv)>>,
                               <<>>, <<>>, "-", 100, "")
        fill == Artist("fill_between", color, x, [i \in DOMAIN density |-> Rat(density[i])],
                       cut, <<>>, "", shade, "")
    IN  (IF outline THEN <<curve, tick(xmin, ymin), tick(xmax, ymax)>> ELSE <<>>)
        \o (IF shade # 0 THEN <<fill>> ELSE <<>>)

\* lines 167-172: the artists of the discrete branch
IntArtists(vec, color, outline, shade) ==
    LET xmin == vec.hpd[1]
        xmax == vec.hpd[2]
        bins == HistBins(xmin, xmax)
        step   == Artist("hist", color, <<>>, <<>>, <<>>, bins, "step", 100, "")
        filled == Artist("hist", color, <<>>, <<>>, <<>>, bins, "bar", shade, "")
    IN  (IF outline THEN <<step>> ELSE <<>>)
        \o (IF shade # 0 THEN <<filled>> ELSE <<>>)

\* lines 174-176: the HPD markers
HpdMarkers(xmin, xmax, hpd_markers, color) ==
    IF hpd_markers # ""
    THEN <<Artist("plot", color, <<xmin>>, <<Rat(0)>>, <<>>, <<>>, hpd_markers, 100, ""),
           Artist("plot", color, <<xmax>>, <<Rat(0)>>, <<>>, <<>>, hpd_markers, 100, "")>>
    ELSE <<>>

\* lines 178-183: the point estimate marker, at (est, -0.001)
PointMarker(vec, point_estimate, color) ==
    IF point_estimate = None THEN <<>>
    ELSE LET est == IF point_estimate = "mean" THEN vec.mean ELSE vec.median
         IN  <<Artist("plot", color, <<est>>, <<[num |-> -1, den |-> 1000]>>,
                      <<>>, <<>>, "o", 100, "")>>

\* lines 119-189.  The result is [err, ax, xmin, xmax, bins]: err = "" when the
\* call returns, else the exception that ended it, with ax as drawn so far.
d_helper(vec, vname, color, point_estimate, hpd_markers, outline, shade, ax) ==
    LET isFloat == vec.kind = "f"
        x   == Linspace(vec.lower, vec.upper, Len(vec.density))
        xc  == Masked(x, CutMask(x, vec.hpd))
        none == [err |-> "", ax |-> ax, xmin |-> Rat(0), xmax |-> Rat(0), bins |-> <<>>]
    IN  IF isFloat /\ xc = <<>>
        THEN \* line 153: x[cut][0] on an empty array
             [none EXCEPT !.err = "IndexError"]
        ELSE
        LET xmin == IF isFloat THEN xc[1] ELSE Rat(vec.hpd[1])
            xmax == IF isFloat THEN xc[Len(xc)] ELSE Rat(vec.hpd[2])
            bins == IF isFloat THEN <<>> ELSE HistBins(vec.hpd[1], vec.hpd[2])
            body == IF isFloat THEN FloatArtists(vec, color, outline, shade)
                               ELSE IntArtists(vec, color, outline, shade)
            marked == ax.artists \o body \o HpdMarkers(xmin, xmax, hpd_markers, color)
            res == [none EXCEPT !.xmin = xmin, !.xmax = xmax, !.bins = bins]
        IN  IF point_estimate \notin {None, "mean", "median"}
            THEN \* line 183: est was never bound
                 [res EXCEPT !.err = "UnboundLocalError", !.ax.artists = marked]
            ELSE [res EXCEPT
                    !.ax = [title |-> vname,
                            artists |-> marked \o PointMarker(vec, point_estimate, color),
                            legend |-> ax.legend,
                            yticks |-> "none",
                            hidden_spines |-> ax.hidden_spines \cup {"left", "right", "top"}]]

-----------------------------------------------------------------------------
(* Collaborators of densityplot.  A dataset is [data_vars, draws]:         *)
(* data_vars the variables in order, each [var_name, kind, selections];    *)
(* draws one [draw, missing] per position along the draw dimension, draw   *)
(* the coordinate and missing whether some value at that draw is NaN.      *)

\* utils.convert_to_xarray: an xarray Dataset is returned as it is
convert_to_xarray(d) == d

\* xarray's Dataset.where(cond), cond one boolean per draw: the values where cond
\* is false become NaN, and
\* every variable's dtype is promoted to one that can hold NaN
where(data, cond) ==
    [data_vars |-> [i \in DOMAIN data.data_vars |->
                        [data.data_vars[i] EXCEPT !.kind = "f"]],
     draws |-> [i \in DOMAIN data.draws |->
                    [data.draws[i] EXCEPT !.missing = data.draws[i].missing \/ ~cond[i]]]]

\* xarray's Dataset.dropna('draw'): the draws holding any NaN are removed
dropna(data) ==
    [data EXCEPT !.draws = SelectSeq(data.draws, LAMBDA d : ~d.missing)]

\* line 67: data.where(data.draw >= skip_first).dropna('draw')
SkipFirst(data, skip_first) ==
    dropna(where(data, [i \in DOMAIN data.draws |-> data.draws[i].draw >= skip_first]))

\* plot_utils.make_label: the variable's name, with the selection when there is one
make_label(var_name, selection) ==
    IF selection = "" THEN var_name ELSE var_name \o "\n" \o selection

\* plot_utils.xarray_var_iter(data, var_names, combined=True): one
\* (var_name, selection, values) per scalar trace, in the dataset's order
xarray_var_iter(data, var_names) ==
    LET wanted == SelectSeq(data.data_vars,
                            LAMBDA v : var_names = None \/ v.var_name \in var_names)
        one(v) == [k \in DOMAIN v.selections |->
                      [var_name |-> v.var_name, selection |-> v.selections[k],
                       values |-> [kind |-> v.kind,
                                   draws |-> [j \in DOMAIN data.draws |-> data.draws[j].draw]]]]
    IN  Concat([i \in DOMAIN wanted |-> one(wanted[i])])

-----------------------------------------------------------------------------
(* densityplot, lines 63-116, statement by statement *)

\* variant: the check of line 69 left out
PointEstimateAny(point_estimate) == TRUE

\* line 69: point_estimate in ('mean', 'median', None)
PointEstimateOk(point_estimate) == point_estimate \in {"mean", "median", None}

\* variant: the indices counted from 1
DefaultLabelsFromOne(n_data) ==
    IF n_data > 1 THEN [idx \in 1..n_data |-> Str(idx)] ELSE <<"">>

\* lines 75-78: the labels made when data_labels is None
DefaultLabels(n_data) ==
    IF n_data > 1 THEN [idx \in 1..n_data |-> Str(idx - 1)] ELSE <<"">>

\* variant: only too many labels are refused
LabelsTooMany(given, n_data) == Len(given) > n_data

\* line 79: len(data_labels) != n_data
LabelsMismatch(given, n_data) == Len(given) # n_data

\* lines 83-86: colors is [isStr, str, list], a string or a list
ResolveColors(c, n_data) ==
    IF c.isStr /\ c.str = "cycle"
    THEN [idx \in 1..n_data |-> "C" \o Str((idx - 1) % PaletteSize)]
    ELSE IF c.isStr THEN [idx \in 1..n_data |-> c.str]
    ELSE c.list

\* lines 89-92: the labels of all the variable instances
AllLabels(plot_lists) ==
    {make_label(p.var_name, p.selection) : p \in SeqToSet(Concat(plot_lists))}

\* variant: one row per variable instance, shared labels counted again
RowPerInstance(plot_lists, labels) == Len(Concat(plot_lists))

\* line 99: the number of rows asked of plt.subplots
SubplotRows(plot_lists, labels) == Cardinality(labels)

\* variant: the first dataset's color for every dataset
FirstColor(color_list, idx) == color_list[1]

\* line 105: colors[m_idx]
ColorOf(color_list, idx) == color_list[idx]

\* line 108: n_data > 1
LegendWanted(n_data) == n_data > 1

\* line 112: ax.legend() lists the artists that carry a label
LegendOf(artists) ==
    LET labelled == SelectSeq(artists, LAMBDA a : a.label # "")
    IN  [i \in DOMAIN labelled |-> [label |-> labelled[i].label, color |-> labelled[i].color]]

\* lines 110-111: the legend-only entries of the first k datasets
LegendEntries(labels, color_list, k) ==
    [i \in 1..k |-> Artist("plot", color_list[i], <<>>, <<>>, <<>>, <<>>, "", 100, labels[i])]

Fail(e) ==
    /\ pc' = "error"
    /\ err' = e

\* lines 63-67
Convert ==
    /\ pc = "convert"
    /\ datasets' = [i \in DOMAIN args.data.items |->
                        SkipFirst(convert_to_xarray(args.data.items[i]), args.skip_first)]
    /\ pc' = "point_estimate"
    /\ UNCHANGED <<err, args, data_labels, colors, to_plot, all_labels, fig, axes,
                   axis_map, m_idx, v_idx, calls, d_args, d_ret>>

\* lines 69-70
CheckPointEstimate ==
    /\ pc = "point_estimate"
    /\ IF PointEstimateOk(args.point_estimate)
       THEN pc' = "data_labels" /\ err' = err
       ELSE Fail("ValueError: point_estimate")
    /\ UNCHANGED <<args, datasets, data_labels, colors, to_plot, all_labels, fig, axes,
                   axis_map, m_idx, v_idx, calls, d_args, d_ret>>

\* lines 72-81
Labels ==
    /\ pc = "data_labels"
    /\ LET n_data == Len(datasets)
       IN  IF ~args.data_labels.given
           THEN /\ data_labels' = DefaultLabels(n_data)
                /\ pc' = "colors" /\ err' = err
           ELSE IF LabelsMismatch(args.data_labels.list, n_data)
           THEN /\ data_labels' = args.data_labels.list
                /\ Fail("ValueError: data_labels")
           ELSE /\ data_labels' = args.data_labels.list
                /\ pc' = "colors" /\ err' = err
    /\ UNCHANGED <<args, datasets, colors, to_plot, all_labels, fig, axes,
                   axis_map, m_idx, v_idx, calls, d_args, d_ret>>

\* lines 83-86
Colors ==
    /\ pc = "colors"
    /\ colors' = ResolveColors(args.colors, Len(datasets))
    /\ pc' = "to_plot"
    /\ UNCHANGED <<err, args, datasets, data_labels, to_plot, all_labels, fig, axes,
                   axis_map, m_idx, v_idx, calls, d_args, d_ret>>

\* lines 88-92
Extract ==
    /\ pc = "to_plot"
    /\ to_plot' = [i \in DOMAIN datasets |-> xarray_var_iter(datasets[i], args.var_names)]
    /\ all_labels' = AllLabels(to_plot')
    /\ pc' = "subplots"
    /\ UNCHANGED <<err, args, datasets, data_labels, colors, fig, axes,
                   axis_map, m_idx, v_idx, calls, d_args, d_ret>>

\* The one-to-one maps of line 100: zip pairs the labels, in the set's iteration
\* order (which Python leaves open), with the panels in grid order.
Pairings(labels, n) ==
    {f \in [labels -> 1..n] : \A a, b \in labels : a # b => f[a] # f[b]}

\* lines 94-100
Subplots ==
    /\ pc = "subplots"
    /\ LET rows == SubplotRows(to_plot, all_labels)
           figsize == <<FigWidth, Cardinality(all_labels) * RowHeight>>
           made == [i \in 1..rows |-> BlankPanel]
       IN  \/ /\ rows > 0
              /\ fig' = [allocated |-> TRUE, figsize |-> figsize, tight |-> FALSE]
              /\ axes' = made
              /\ axis_map' \in Pairings(all_labels, rows)
              /\ pc' = "render" /\ err' = err
           \/ \* a grid of no rows: older plotting libraries return an empty grid,
              \* newer ones refuse
              /\ rows = 0
              /\ \/ /\ fig' = [allocated |-> TRUE, figsize |-> figsize, tight |-> FALSE]
                    /\ axes' = <<>>
                    /\ axis_map' \in Pairings(all_labels, rows)
                    /\ pc' = "render" /\ err' = err
                 \/ /\ fig' = [allocated |-> TRUE, figsize |-> figsize, tight |-> FALSE]
                    /\ Fail("ValueError: subplots")
                    /\ UNCHANGED <<axes, axis_map>>
    /\ m_idx' = 1
    /\ v_idx' = 1
    /\ UNCHANGED <<args, datasets, data_labels, colors, to_plot, all_labels,
                   calls, d_args, d_ret>>

\* What the collaborators may return on a float vector, in Spec: a grid of two
\* points with the interval on it, or with the interval between its points.
SampleVecs ==
    {[kind |-> "f", density |-> <<1, 1>>, lower |-> 0, upper |-> MaxVal,
      hpd |-> h, mean |-> Rat(1), median |-> Rat(2)] : h \in {<<0, MaxVal>>, <<1, 2>>}}

\* lines 103-106: one turn of the inner loop
RenderOne ==
    /\ pc = "render"
    /\ m_idx <= Len(to_plot)
    /\ v_idx <= Len(to_plot[m_idx])
    /\ LET p == to_plot[m_idx][v_idx]
           label == make_label(p.var_name, p.selection)
           k == axis_map[label]
           call(color) == [m_idx |-> m_idx, v_idx |-> v_idx, label |-> label,
                           color |-> color, axis |-> k]
       IN  IF m_idx > Len(colors)
           THEN \* colors[m_idx] of a list that is too short
                /\ Fail("IndexError")
                /\ UNCHANGED <<axes, calls, v_idx>>
           ELSE IF p.values.draws = <<>>
           THEN \* fast_kde and hpd raise on an empty vector
                /\ Fail("collaborator")
                /\ calls' = Append(calls, call(ColorOf(colors, m_idx)))
                /\ UNCHANGED <<axes, v_idx>>
           ELSE \E vec \in SampleVecs :
                LET r == d_helper(vec, label, ColorOf(colors, m_idx), args.point_estimate,
                                  args.hpd_markers, args.outline, args.shade, axes[k])
                IN  /\ calls' = Append(calls, call(ColorOf(colors, m_idx)))
                    /\ axes' = [axes EXCEPT ![k] = r.ax]
                    /\ IF r.err = ""
                       THEN pc' = pc /\ err' = err /\ v_idx' = v_idx + 1
                       ELSE Fail(r.err) /\ v_idx' = v_idx
    /\ UNCHANGED <<args, datasets, data_labels, colors, to_plot, all_labels, fig,
                   axis_map, m_idx, d_args, d_ret>>

\* line 102: on to the next dataset
NextPlotters ==
    /\ pc = "render"
    /\ m_idx <= Len(to_plot)
    /\ v_idx > Len(to_plot[m_idx])
    /\ m_idx' = m_idx + 1
    /\ v_idx' = 1
    /\ UNCHANGED <<pc, err, args, datasets, data_labels, colors, to_plot, all_labels,
                   fig, axes, axis_map, calls, d_args, d_ret>>

\* lines 108-112
Legend ==
    /\ pc = "render"
    /\ m_idx > Len(to_plot)
    /\ IF ~LegendWanted(Len(datasets))
       THEN pc' = "tight_layout" /\ err' = err /\ axes' = axes
       ELSE IF axes = <<>>
       THEN Fail("IndexError") /\ axes' = axes
       ELSE IF Len(colors) < Len(data_labels)
       THEN /\ Fail("IndexError")
            /\ axes' = [axes EXCEPT ![1].artists =
                            @ \o LegendEntries(data_labels, colors, Len(colors))]
       ELSE LET drawn == axes[1].artists
                            \o LegendEntries(data_labels, colors, Len(data_labels))
            IN  /\ axes' = [axes EXCEPT ![1].artists = drawn,
                                        ![1].legend = LegendOf(drawn)]
                /\ pc' = "tight_layout" /\ err' = err
    /\ UNCHANGED <<args, datasets, data_labels, colors, to_plot, all_labels, fig,
                   axis_map, m_idx, v_idx, calls, d_args, d_ret>>

\* lines 114-116
Return ==
    /\ pc = "tight_layout"
    /\ fig' = [fig EXCEPT !.tight = TRUE]
    /\ pc' = "done"
    /\ UNCHANGED <<err, args, datasets, data_labels, colors, to_plot, all_labels,
                   axes, axis_map, m_idx, v_idx, calls, d_args, d_ret>>

-----------------------------------------------------------------------------
(* The arguments a call of densityplot is given *)

Draws(nan) == [i \in 1..MaxDraw |-> [draw |-> i - 1, missing |-> (i - 1) \in nan]]

Mu    == [var_name |-> "mu", kind |-> "f", selections |-> <<"">>]
Theta == [var_name |-> "theta", kind |-> "i", selections |-> <<"0", "1">>]

\* mu alone, mu with a two-element integer theta, and theta alone with a NaN in
\* its last draw
SampleDatasets ==
    {[data_vars |-> <<Mu>>, draws |-> Draws({})],
     [data_vars |-> <<Mu, Theta>>, draws |-> Draws({})],
     [data_vars |-> <<Theta>>, draws |-> Draws({MaxDraw - 1})]}

SeqsUpTo(S, n) == UNION {[1..k -> S] : k \in 0..n}

\* data: one dataset, or a list of 0 .. MaxData datasets
DataArgs ==
    {[isList |-> FALSE, items |-> <<d>>] : d \in SampleDatasets}
    \cup {[isList |-> TRUE, items |-> ds] : ds \in SeqsUpTo(SampleDatasets, MaxData)}

\* data_labels: None, or a list of 1 .. MaxData names
LabelArgs ==
    {[given |-> FALSE, list |-> <<>>]}
    \cup {[given |-> TRUE, list |-> [i \in 1..k |-> "model " \o Str(i)]] : k \in 1..MaxData}

\* colors: 'cycle', one color, or a list of 1 .. MaxData colors
ColorArgs ==
    {[isStr |-> TRUE, str |-> s, list |-> <<>>] : s \in {"cycle", "k"}}
    \cup {[isStr |-> FALSE, str |-> "", list |-> [i \in 1..k |-> "tab" \o Str(i)]]
            : k \in 1..MaxData}

\* outline, hpd_markers, shade: the defaults, and every one of them changed
\* (SpecHelper goes through all their combinations)
RenderArgs ==
    {[outline |-> TRUE, hpd_markers |-> "", shade |-> 0],
     [outline |-> FALSE, hpd_markers |-> "v", shade |-> 50]}

Args ==
    {[data |-> d, data_labels |-> l, var_names |-> None, point_estimate |-> e,
      colors |-> c, outline |-> r.outline, hpd_markers |-> r.hpd_markers,
      shade |-> r.shade, skip_first |-> s] :
        d \in DataArgs, l \in LabelArgs, e \in {"mean", "median", None, "mode"},
        c \in ColorArgs, r \in RenderArgs, s \in 0..MaxDraw}

NoVec == [kind |-> "f", density |-> <<>>, lower |-> 0, upper |-> 0, hpd |-> <<0, 0>>,
          mean |-> Rat(0), median |-> Rat(0)]

NoCall == [vec |-> NoVec, vname |-> "", color |-> "", point_estimate |-> None,
           hpd_markers |-> "", outline |-> FALSE, shade |-> 0]

NoRet == [err |-> "", ax |-> BlankPanel, xmin |-> Rat(0), xmax |-> Rat(0), bins |-> <<>>]

Init ==
    /\ pc = "convert"
    /\ err = ""
    /\ args \in Args
    /\ datasets = <<>>
    /\ data_labels = <<>>
    /\ colors = <<>>
    /\ to_plot = <<>>
    /\ all_labels = {}
    /\ fig = [allocated |-> FALSE, figsize |-> <<0, 0>>, tight |-> FALSE]
    /\ axes = <<>>
    /\ axis_map = <<>>
    /\ m_idx = 0
    /\ v_idx = 0
    /\ calls = <<>>
    /\ d_args = NoCall
    /\ d_ret = NoRet

Next ==
    \/ Convert
    \/ CheckPointEstimate
    \/ Labels
    \/ Colors
    \/ Extract
    \/ Subplots
    \/ RenderOne
    \/ NextPlotters
    \/ Legend
    \/ Return

Spec == Init /\ [][Next]_vars

-----------------------------------------------------------------------------
(* One call of _d_helper on a blank panel *)

\* A float vector as the collaborators see it: fast_kde gives a density on
\* 2 .. MaxGrid points between the vector's smallest and largest value, hpd an
\* interval between those two values.
FloatVecs ==
    {[kind |-> "f", density |-> d, lower |-> b[1], upper |-> b[4], hpd |-> <<b[2], b[3]>>,
      mean |-> Rat(IF m = "low" THEN b[1] ELSE b[4]),
      median |-> [num |-> b[2] + b[3], den |-> 2]] :
        b \in {q \in (0..MaxVal) \X (0..MaxVal) \X (0..MaxVal) \X (0..MaxVal) :
                  q[1] <= q[2] /\ q[2] <= q[3] /\ q[3] <= q[4]},
        d \in UNION {{[i \in 1..n |-> 1], [i \in 1..n |-> i]} : n \in 2..MaxGrid},
        m \in {"low", "high"}}

\* An integer vector: hpd gives two of its values; fast_kde is not asked.
IntVecs ==
    {[kind |-> "i", density |-> <<>>, lower |-> 0, upper |-> 0, hpd |-> h,
      mean |-> [num |-> h[1] + h[2], den |-> 2], median |-> Rat(h[1])] :
        h \in {q \in (0..MaxVal) \X (0..MaxVal) : q[1] <= q[2]}}

DArgs ==
    [vec : FloatVecs \cup IntVecs,
     vname : {"mu"},
     color : {"C0"},
     point_estimate : {"mean", "median", None},
     hpd_markers : {"", "v"},
     outline : BOOLEAN,
     shade : {0, 50}]

InitHelper ==
    /\ pc = "d_call"
    /\ err = ""
    /\ d_args \in DArgs
    /\ d_ret = NoRet
    /\ args = <<>>
    /\ datasets = <<>>
    /\ data_labels = <<>>
    /\ colors = <<>>
    /\ to_plot = <<>>
    /\ all_labels = {}
    /\ fig = [allocated |-> FALSE, figsize |-> <<0, 0>>, tight |-> FALSE]
    /\ axes = <<>>
    /\ axis_map = <<>>
    /\ m_idx = 0
    /\ v_idx = 0
    /\ calls = <<>>

\* lines 119-189, on a panel nothing was drawn on
DHelperCall ==
    /\ pc = "d_call"
    /\ LET r == d_helper(d_args.vec, d_args.vname, d_args.color, d_args.point_estimate,
                         d_args.hpd_markers, d_args.outline, d_args.shade, BlankPanel)
       IN  /\ d_ret' = r
           /\ err' = r.err
           /\ pc' = IF r.err = "" THEN "d_done" ELSE "error"
    /\ UNCHANGED <<args, datasets, data_labels, colors, to_plot, all_labels, fig, axes,
                   axis_map, m_idx, v_idx, calls, d_args>>

NextHelper == DHelperCall

SpecHelper == InitHelper /\ [][NextHelper]_vars

-----------------------------------------------------------------------------
(* Properties of densityplot (Spec) *)

NData == Len(args.data.items)

NothingDrawn == ~fig.allocated /\ axes = <<>> /\ calls = <<>>

\* C1: a call whose point_estimate is not 'mean', 'median' or None gets no further
\* than the check of line 69, ends there in the ValueError of line 70, and has then
\* allocated no figure or panel and invoked _d_helper for no variable, whatever
\* data_labels and colors are.
C1_InvalidPointEstimateRejected ==
    args.point_estimate \notin {"mean", "median", None} =>
        /\ pc \in {"convert", "point_estimate", "error"}
        /\ pc = "error" => err = "ValueError: point_estimate"
        /\ NothingDrawn

C1_Witness ==
    /\ pc = "error"
    /\ err = "ValueError: point_estimate"
    /\ args.point_estimate = "mode"
    /\ args.data_labels.given
    /\ Len(args.data_labels.list) # NData
    /\ ~args.colors.isStr
    /\ Len(args.colors.list) # NData

\* C2: with a valid point_estimate and data_labels given, a length other than the
\* number of datasets ends the call in the ValueError of line 80 before any figure
\* is allocated or any variable rendered; an equal length never raises that error.
C2_LabelCountChecked ==
    (args.point_estimate \in {"mean", "median", None} /\ args.data_labels.given) =>
        IF Len(args.data_labels.list) # NData
        THEN /\ pc \in {"convert", "point_estimate", "data_labels", "error"}
             /\ pc = "error" => err = "ValueError: data_labels"
             /\ NothingDrawn
        ELSE err # "ValueError: data_labels"

C2_Witness ==
    /\ pc = "error"
    /\ err = "ValueError: data_labels"
    /\ Len(args.data_labels.list) < NData
    /\ args.point_estimate = None

LabelsAssigned ==
    /\ pc \notin {"convert", "point_estimate", "data_labels"}
    /\ err # "ValueError: point_estimate"

\* C3: with N >= 1 datasets and no data_labels given, the labels made are <<"">>
\* for N = 1 and "0", "1", ..., "N-1" in dataset order for N > 1; N labels either way.
C3_SynthesizedLabels ==
    (LabelsAssigned /\ ~args.data_labels.given /\ NData >= 1) =>
        /\ Len(data_labels) = NData
        /\ NData = 1 => data_labels = <<"">>
        /\ NData > 1 => data_labels = SubSeq(<<"0", "1", "2", "3", "4", "5">>, 1, NData)

C3_Witness ==
    /\ LabelsAssigned
    /\ ~args.data_labels.given
    /\ NData = 2
    /\ data_labels = <<"0", "1">>

\* The display labels of the variable instances of all the datasets given
InputLabels ==
    UNION {UNION {{make_label(d.data_vars[i].var_name, d.data_vars[i].selections[k]) :
                      k \in DOMAIN d.data_vars[i].selections} :
                  i \in DOMAIN d.data_vars} :
           d \in SeqToSet(args.data.items)}

\* C4: a call that returns has as many panels as there are distinct display labels
\* over all datasets; the first panel carries a legend of one entry per dataset,
\* with that dataset's color and label, exactly when there are two datasets or
\* more, and no other panel carries one.
C4_PanelsAndLegend ==
    pc = "done" =>
        /\ Len(axes) = Cardinality(InputLabels)
        /\ \A k \in DOMAIN axes :
              axes[k].legend =
                 IF k = 1 /\ NData > 1
                 THEN [i \in 1..NData |-> [label |-> data_labels[i], color |-> colors[i]]]
                 ELSE <<>>
        /\ NData > 1 => axes # <<>>

C4_Witness ==
    /\ pc = "done"
    /\ NData = 2
    /\ \A i \in 1..2 : Len(args.data.items[i].data_vars) = 1
    /\ InputLabels = {"mu"}
    /\ Len(axes) = 1
    /\ Len(axes[1].legend) = 2
    /\ axes[1].legend[1].color # axes[1].legend[2].color

\* C5 (as claimed): in a call that reached rendering, colors holds one entry per
\* dataset, for 'cycle', for one color string and for a list alike.  Stated of
\* the calls that rendered every variable and returned.
C5_OneColorPerDataset ==
    (pc = "done" /\ calls # <<>>) => Len(colors) = NData

\* C6 (as claimed): the draws that reach extraction are exactly the draws of the
\* dataset given whose draw index is >= skip_first, in order.
C6_ExactlyBurnInRemoved ==
    pc # "convert" =>
        \A i \in 1..NData :
            [j \in DOMAIN datasets[i].draws |-> datasets[i].draws[j].draw]
              = LET kept == SelectSeq(args.data.items[i].draws,
                                      LAMBDA d : d.draw >= args.skip_first)
                IN  [j \in DOMAIN kept |-> kept[j].draw]

\* C9: in a call that returns, axis_map is one-to-one from the distinct display
\* labels onto the panels; every (dataset, variable instance) pair was rendered
\* exactly once, on the panel of its label and in the color of its dataset, the
\* datasets in the order given; so every panel was rendered on and bears the
\* label mapped to it as its title.
C9_EachInstanceOnItsPanel ==
    pc = "done" =>
        /\ DOMAIN axis_map = all_labels
        /\ \A a, b \in all_labels : a # b => axis_map[a] # axis_map[b]
        /\ {axis_map[a] : a \in all_labels} = DOMAIN axes
        /\ \A m \in DOMAIN to_plot : \A j \in DOMAIN to_plot[m] :
              LET mine == {c \in DOMAIN calls : calls[c].m_idx = m /\ calls[c].v_idx = j}
                  label == make_label(to_plot[m][j].var_name, to_plot[m][j].selection)
              IN  /\ Cardinality(mine) = 1
                  /\ \A c \in mine :
                        /\ calls[c].label = label
                        /\ calls[c].axis = axis_map[label]
                        /\ calls[c].color = colors[m]
        /\ \A c \in DOMAIN calls :
              /\ calls[c].m_idx \in DOMAIN to_plot
              /\ calls[c].v_idx \in DOMAIN to_plot[calls[c].m_idx]
        /\ \A c, e \in DOMAIN calls : c < e => calls[c].m_idx <= calls[e].m_idx
        /\ \A k \in DOMAIN axes :
              /\ \E c \in DOMAIN calls : calls[c].axis = k
              /\ \A a \in all_labels : axis_map[a] = k => axes[k].title = a

C9_Witness ==
    /\ pc = "done"
    /\ NData = 2
    /\ Len(axes) = 3
    /\ Len(calls) = 4
    /\ axis_map["mu"] = 3
    /\ colors[1] # colors[2]

-----------------------------------------------------------------------------
(* Properties of _d_helper (SpecHelper) *)

\* The histograms drawn on the panel
Hists == SelectSeq(d_ret.ax.artists, LAMBDA a : a.op = "hist")

\* C7: for an integer vector with credible interval (lower, upper) the bin edges
\* are the consecutive integers lower, ..., upper + 1, so every value in
\* [lower, upper] lies in a bin of width one; every histogram drawn uses them.
C7_DiscreteBins ==
    (pc = "d_done" /\ d_args.vec.kind = "i") =>
        LET lower == d_args.vec.hpd[1]
            upper == d_args.vec.hpd[2]
            bins  == d_ret.bins
        IN  /\ Len(bins) = upper - lower + 2
            /\ bins[1] = lower
            /\ bins[Len(bins)] = upper + 1
            /\ \A i \in 1..(Len(bins) - 1) : bins[i + 1] = bins[i] + 1
            /\ \A v \in lower..upper :
                  \E i \in 1..(Len(bins) - 1) : bins[i] <= v /\ v < bins[i + 1]
            /\ \A i \in DOMAIN Hists : Hists[i].bins = bins
            /\ Len(Hists) = (IF d_args.outline THEN 1 ELSE 0)
                            + (IF d_args.shade # 0 THEN 1 ELSE 0)

C7_Witness ==
    /\ pc = "d_done"
    /\ d_args.vec.kind = "i"
    /\ d_args.vec.hpd = <<2, 7>>
    /\ d_ret.bins = <<2, 3, 4, 5, 6, 7, 8>>
    /\ Len(Hists) = 2

\* The artists of the given marker at height 0
MarkersAtZero(glyph) ==
    SelectSeq(d_ret.ax.artists, LAMBDA a : a.op = "plot" /\ a.fmt = glyph /\ a.ys = <<Rat(0)>>)

PointMarkers ==
    SelectSeq(d_ret.ax.artists,
              LAMBDA a : a.op = "plot" /\ a.fmt = "o" /\ a.ys = <<[num |-> -1, den |-> 1000]>>)

\* C8 (as claimed): with shade = 0 and outline = False, for either value kind,
\* _d_helper returns without an error, having drawn no curve, tick, filled area
\* or histogram; the HPD markers are drawn iff the glyph is not empty, the point
\* estimate iff point_estimate is not None, and the title is the display label.
C8_NothingToDrawStillCompletes ==
    (pc # "d_call" /\ d_args.shade = 0 /\ ~d_args.outline) =>
        /\ pc = "d_done"
        /\ d_ret.err = ""
        /\ \A i \in DOMAIN d_ret.ax.artists :
              /\ d_ret.ax.artists[i].op = "plot"
              /\ d_ret.ax.artists[i].fmt # "-"
        /\ Len(MarkersAtZero("v")) = (IF d_args.hpd_markers = "v" THEN 2 ELSE 0)
        /\ Len(PointMarkers) = (IF d_args.point_estimate # None THEN 1 ELSE 0)
        /\ d_ret.ax.title = d_args.vname

\* C10 (as claimed): a call given a glyph plots exactly two markers at height 0,
\* at the lower and at the upper bound of the interval hpd returned, in the
\* continuous and in the discrete branch.  Stated of the calls that return.
C10_MarkersAtIntervalBounds ==
    (pc = "d_done" /\ d_args.hpd_markers # "") =>
        LET marks == MarkersAtZero(d_args.hpd_markers)
        IN  /\ Len(marks) = 2
            /\ RatEq(marks[1].xs[1], Rat(d_args.vec.hpd[1]))
            /\ RatEq(marks[2].xs[1], Rat(d_args.vec.hpd[2]))

====
